---- MODULE Spec2Model ----
(***************************************************************************)
(* The per-connection I/O engine of gnet (connection_unix.go): one TCP     *)
(* connection owned by one event loop, foreign producer threads that call  *)
(* the concurrency-safe API (AsyncWrite, Wake, Close, SendTo), the loop's  *)
(* task channel, the poller's interest mask for the fd, the kernel's view  *)
(* of the socket, one UDP connection for SendTo, and the inbound ring and   *)
(* transit buffer behind Read, ReadN, ShiftN and ResetBuffer.              *)
(*                                                                         *)
(* Code outside connection_unix.go (the event loop's loopOpen,             *)
(* loopCloseConn, loopWake and handleWrite, the poller's Trigger and       *)
(* ModReadWrite, the ring buffer, the mixed outbound buffer, the pools,    *)
(* the codec) is modelled from the specification's description of it.      *)
(***************************************************************************)
EXTENDS Integers, Sequences, FiniteSets, TLC

\* ---------------------------------------------------------------- bounds

\* Calls the producer threads make on the TCP connection, all together.
MaxCalls == 3
\* Bytes of one payload handed to AsyncWrite / returned by React.
PayloadLen == 2
\* Capacity of the loop's task channel (both priority classes together).
TaskCap == 2
\* Capacity of the ring part of the mixed outbound buffer.
RingCap == 3
\* SendTo calls made on the UDP connection.
MaxSendTo == 3
\* Capacity of the inbound ring a connection is created with.
InCap == 4
\* Bytes the peer sends on the connection, all together.
MaxInbound == 6
\* Calls of Read, ReadN, ShiftN and ResetBuffer made on the connection.
MaxInCalls == 3

\* The foreign (non-loop) threads.
Producers == {1, 2}
\* The owning loop's thread.
LoopThread == 0
\* The foreign threads that use the UDP connection.
UdpProducers == {3, 4}

\* ---------------------------------------------------------------- bytes

RECURSIVE Flatten(_)
\* The concatenation of a sequence of byte sequences.
Flatten(ss) == IF ss = <<>> THEN <<>> ELSE Head(ss) \o Flatten(Tail(ss))

\* s[n+1 ..], Go's s[n:].
SliceFrom(s, n) == SubSeq(s, n + 1, Len(s))

\* s[.. n], Go's s[:n].
SliceTo(s, n) == SubSeq(s, 1, n)

IsPrefix(p, s) == Len(p) <= Len(s) /\ SliceTo(s, Len(p)) = p

\* A payload byte names the thread that produced it, that thread's call
\* number and its index in the payload, so that a byte stream can be
\* checked for order, loss and duplication.
ByteOf(t, k, j) == 100 * (t + 1) + 10 * k + j
IsPayloadByte(b) == b >= 100
ByteThread(b) == (b \div 100) - 1
ByteCall(b) == (b % 100) \div 10
ByteIndex(b) == b % 10
ByteId(b) == <<ByteThread(b), ByteCall(b)>>

\* The caller's bytes of call k of thread t.
Payload(t, k) == [j \in 1..PayloadLen |-> ByteOf(t, k, j)]

\* ------------------------------------------------- mixed outbound buffer

\* mixedbuffer.New(): an empty ring and an empty list of segments.
MBNew == [ring |-> <<>>, list |-> <<>>]

\* Buffer.IsEmpty(): both the ring and the list are empty.
MBIsEmpty(b) == b.ring = <<>> /\ b.list = <<>>

\* Buffer.Peek(): the whole buffered content in FIFO order, ring first.
MBBytes(b) == b.ring \o Flatten(b.list)

\* Buffer.Write(bytes): to the ring when the list is empty and the bytes
\* fit, otherwise the whole of them to the list as one segment.
MBWrite(b, bytes) ==
    IF bytes = <<>> THEN b
    ELSE IF b.list = <<>> /\ Len(b.ring) + Len(bytes) <= RingCap
         THEN [b EXCEPT !.ring = b.ring \o bytes]
         ELSE [b EXCEPT !.list = Append(b.list, bytes)]

RECURSIVE DiscardList(_, _)
\* n bytes consumed from the front of the list; a segment wholly consumed
\* is freed.
DiscardList(list, n) ==
    IF n = 0 \/ list = <<>> THEN list
    ELSE IF n >= Len(Head(list)) THEN DiscardList(Tail(list), n - Len(Head(list)))
    ELSE <<SliceFrom(Head(list), n)>> \o Tail(list)

\* Buffer.Discard(n): n bytes consumed from the front, ring first.
MBDiscard(b, n) ==
    IF n <= Len(b.ring) THEN [b EXCEPT !.ring = SliceFrom(b.ring, n)]
    ELSE [ring |-> <<>>, list |-> DiscardList(b.list, n - Len(b.ring))]

\* Buffer.Release(): everything buffered is dropped.
MBRelease(b) == MBNew

\* ------------------------------------------------------ inbound ring buffer

\* A ring of capacity size whose read index is r and whose buffered bytes,
\* in FIFO order, are data; the byte data[i] sits at index (r + i - 1) % size
\* of the array, so the content wraps when r + Len(data) > size.
RBNew == [size |-> InCap, r |-> 0, data |-> <<>>]

\* ringbuffer.EmptyRingBuffer: the shared ring of no capacity.
EmptyRingBuffer == [size |-> 0, r |-> 0, data |-> <<>>]

\* RingBuffer.Length().
RBLength(rb) == Len(rb.data)

\* RingBuffer.Peek(n): up to n bytes as two contiguous slices, the tail
\* empty when the bytes do not wrap; all of them when n <= 0 or n > length.
RBPeek(rb, n) ==
    LET m == IF n <= 0 \/ n > Len(rb.data) THEN Len(rb.data) ELSE n
        c1 == rb.size - rb.r
    IN  IF m <= c1
        THEN [head |-> SliceTo(rb.data, m), tail |-> <<>>]
        ELSE [head |-> SliceTo(rb.data, c1), tail |-> SubSeq(rb.data, c1 + 1, m)]

\* RingBuffer.PeekAll(): Peek(length).
RBPeekAll(rb) == RBPeek(rb, Len(rb.data))

\* RingBuffer.Discard(n): the read index advances by min(n, length).
RBDiscard(rb, n) ==
    LET m == IF n > Len(rb.data) THEN Len(rb.data) ELSE n
    IN  IF m <= 0 THEN rb
        ELSE [rb EXCEPT !.r = (rb.r + m) % rb.size, !.data = SliceFrom(rb.data, m)]

\* RingBuffer.Reset(): cleared without freeing.
RBReset(rb) == [rb EXCEPT !.r = 0, !.data = <<>>]

RECURSIVE RBGrown(_, _)
\* The capacity after doubling until need bytes fit.
RBGrown(size, need) == IF need <= size THEN size ELSE RBGrown(2 * size, need)

\* RingBuffer.Write(bytes): appended; a ring too small is grown by
\* doubling, the data copied so that the head is at index 0.
RBWrite(rb, bytes) ==
    IF Len(rb.data) + Len(bytes) <= rb.size
    THEN [rb EXCEPT !.data = rb.data \o bytes]
    ELSE [size |-> RBGrown(rb.size, Len(rb.data) + Len(bytes)), r |-> 0,
          data |-> rb.data \o bytes]

\* RingBuffer.ByteBuffer(): a byte buffer from the pool holding a copy of
\* all the buffered bytes.
RBByteBuffer(rb) == rb.data

\* ----------------------------------------------------------------- codec

\* ICodec.Encode(c, buf) of a length-prefixing codec: a one-byte length
\* header, then buf.
Encode(buf) == <<Len(buf)>> \o buf

\* ---------------------------------------------------------------- kernel

\* What unix.Write(fd, p) can return on the non-blocking socket for
\* len(p) = len: (n, nil) with 1 <= n <= len ((0, nil) for an empty p),
\* (-1, EAGAIN) when the socket buffer takes nothing, (-1, EINTR) when a
\* signal interrupted the call before it wrote anything, or (-1, EPIPE) for
\* a peer that closed or reset the connection.
KernelOutcomes(len) ==
    [n : (IF len = 0 THEN {0} ELSE 1..len), err : {"nil"}]
        \cup [n : {-1}, err : {"EAGAIN", "EINTR", "EPIPE"}]

\* The errno values that report a transient condition.
Transient == {"EAGAIN", "EINTR"}

\* The answers taken in the runs of the whole loop: conn.write, conn.open
\* and handleWrite tell EAGAIN from every other errno and no other errno
\* from another, so EPIPE stands for them all there.
LoopOutcomes(len) == {k \in KernelOutcomes(len) : k.err # "EINTR"}

\* ---------------------------------------------------------------- poller

\* Poller.ModReadWrite(pa): the fd's interest mask becomes {Read, Write}.
ModReadWrite(mask) == "readwrite"

\* Poller.ModRead(pa): the fd's interest mask becomes {Read}.
ModRead(mask) == "read"

\* Poller.Trigger(fn, arg): a task is put at the tail of the normal class
\* of the task channel, or ErrQueueFull is returned when the channel is
\* full.
Trigger(uq, nq, task) ==
    IF Len(uq) + Len(nq) >= TaskCap
    THEN [uq |-> uq, nq |-> nq, err |-> "ErrQueueFull"]
    ELSE [uq |-> uq, nq |-> Append(nq, task), err |-> "nil"]

\* Poller.UrgentTrigger(fn, arg): the same for the urgent class.
UrgentTrigger(uq, nq, task) ==
    IF Len(uq) + Len(nq) >= TaskCap
    THEN [uq |-> uq, nq |-> nq, err |-> "ErrQueueFull"]
    ELSE [uq |-> Append(uq, task), nq |-> nq, err |-> "nil"]

\* ------------------------------------------------------------ conn (pure)

\* What a call that did nothing leaves behind.
Untouched(ob, mask) ==
    [ob |-> ob, mask |-> mask, acc |-> <<>>, packet |-> <<>>, ev |-> <<>>,
     err |-> "nil", close |-> FALSE, outcome |-> "noop"]

\* _, _ = c.outboundBuffer.Write(bytes): the buffer after the call, whose
\* results are dropped; a Write that failed for lack of resources (appOk
\* false) has buffered nothing.
BufferPacket(ob, bytes, appOk) == IF appOk THEN MBWrite(ob, bytes) ELSE ob

\* Mutant of WriteMustAppend: the pending data is not looked at.
WriteMustAppendNever(ob) == FALSE

\* conn.write: pending data in the outbound buffer makes the packet go
\* behind it instead of to the fd.
WriteMustAppend(ob) == ~MBIsEmpty(ob)

\* Mutant of WriteLeftover: the whole packet is buffered.
WriteLeftoverWhole(packet, n) == packet

\* Mutant of WriteLeftover: one byte too many is skipped.
WriteLeftoverOffByOne(packet, n) == SliceFrom(packet, n + 1)

\* conn.write: the part of the packet buffered after the kernel took n
\* bytes of it, packet[n:].
WriteLeftover(packet, n) == SliceFrom(packet, n)

\* Mutant of WriteArm: the mask is not changed.
WriteArmForgotten(mask) == mask

\* conn.write: the interest mask after data was left in the outbound
\* buffer, c.loop.poller.ModReadWrite(c.pollAttachment).
WriteArm(mask) == ModReadWrite(mask)

\* Mutant of CloseCause: the errno is dropped.
CloseCauseLost(err) == "nil"

\* conn.write: the error the connection is closed with after a failed
\* direct write, os.NewSyscallError("write", err), which keeps the errno as
\* its cause.
CloseCause(err) == err

\* conn.write(buf) with the codec's verdict encOk, the kernel's answer k
\* to the direct write and the outbound buffer's verdict appOk on an
\* append: the outbound buffer and interest mask it leaves, the bytes the
\* kernel accepted, the hooks and calls it made in order, the error it
\* returns and whether it closed the connection.
ConnWrite(ob, mask, buf, encOk, k, appOk) ==
    LET packet == Encode(buf)
        base == Untouched(ob, mask)
    IN  IF ~encOk
        THEN [base EXCEPT !.ev = <<"Encode", "AfterWrite">>, !.err = "encode",
                          !.outcome = "encerr"]
        ELSE IF WriteMustAppend(ob)
        THEN [base EXCEPT !.ob = BufferPacket(ob, packet, appOk), !.packet = packet,
                          !.ev = <<"Encode", "PreWrite", "Append", "AfterWrite">>,
                          !.outcome = "appended"]
        ELSE IF k.err = "EAGAIN"
        THEN [base EXCEPT !.ob = BufferPacket(ob, packet, appOk), !.packet = packet,
                          !.mask = WriteArm(mask),
                          !.ev = <<"Encode", "PreWrite", "Write", "Append",
                                   "ModReadWrite", "AfterWrite">>,
                          !.outcome = "eagain"]
        ELSE IF k.err # "nil"
        THEN [base EXCEPT !.packet = packet, !.err = CloseCause(k.err), !.close = TRUE,
                          !.ev = <<"Encode", "PreWrite", "Write", "loopCloseConn",
                                   "AfterWrite">>,
                          !.outcome = "closed"]
        ELSE IF k.n < Len(packet)
        THEN [base EXCEPT !.ob = BufferPacket(ob, WriteLeftover(packet, k.n), appOk),
                          !.packet = packet, !.acc = SliceTo(packet, k.n),
                          !.mask = WriteArm(mask),
                          !.ev = <<"Encode", "PreWrite", "Write", "Append",
                                   "ModReadWrite", "AfterWrite">>,
                          !.outcome = "partial"]
        ELSE [base EXCEPT !.packet = packet, !.acc = packet,
                          !.ev = <<"Encode", "PreWrite", "Write", "AfterWrite">>,
                          !.outcome = "full"]

\* Mutant of ConnAsyncWrite: the opened flag is not looked at.
ConnAsyncWriteUnguarded(op, ob, mask, buf, encOk, k, appOk) ==
    ConnWrite(ob, mask, buf, encOk, k, appOk)

\* conn.asyncWrite(buf): nothing unless the connection is opened, else
\* conn.write(buf).
ConnAsyncWrite(op, ob, mask, buf, encOk, k, appOk) ==
    IF ~op THEN Untouched(ob, mask) ELSE ConnWrite(ob, mask, buf, encOk, k, appOk)

\* conn.open(buf): the bytes OnOpened returned go to the fd as they are;
\* what the kernel did not take is buffered.
ConnOpen(ob, mask, buf, k, appOk) ==
    LET base == [Untouched(ob, mask) EXCEPT !.packet = buf] IN
    IF k.err = "EAGAIN"
    THEN [base EXCEPT !.ob = BufferPacket(ob, buf, appOk),
                      !.ev = <<"PreWrite", "Write", "Append", "AfterWrite">>,
                      !.outcome = "eagain"]
    ELSE IF k.err = "nil" /\ k.n < Len(buf)
    THEN [base EXCEPT !.ob = BufferPacket(ob, SliceFrom(buf, k.n), appOk),
                      !.acc = SliceTo(buf, k.n),
                      !.ev = <<"PreWrite", "Write", "Append", "AfterWrite">>,
                      !.outcome = "partial"]
    ELSE IF k.err = "nil"
    THEN [base EXCEPT !.acc = buf,
                      !.ev = <<"PreWrite", "Write", "AfterWrite">>,
                      !.outcome = "full"]
    ELSE [base EXCEPT !.err = k.err,
                      !.ev = <<"PreWrite", "Write", "AfterWrite">>,
                      !.outcome = "failed"]

\* c.transitBuffer == nil.
NoTransit == [present |-> FALSE, B |-> <<>>]

\* c.transitBuffer holding the bytes b.
TransitOf(b) == [present |-> TRUE, B |-> b]

\* conn.Read(): all the buffered bytes; the head slice when they do not
\* wrap, else a linear copy in the transit buffer, which is obtained from
\* the ring (and the byte-buffer pool) when there is none yet. got counts
\* the byte buffers taken from the pool, copied tells whether the bytes
\* returned are the transit buffer's.
ConnRead(rb, tb) ==
    LET p == RBPeekAll(rb) IN
    IF p.tail = <<>>
    THEN [bytes |-> p.head, tb |-> tb, got |-> 0, copied |-> FALSE]
    ELSE IF ~tb.present
    THEN [bytes |-> RBByteBuffer(rb), tb |-> TransitOf(RBByteBuffer(rb)),
          got |-> 1, copied |-> TRUE]
    ELSE [bytes |-> p.head \o p.tail, tb |-> TransitOf(p.head \o p.tail),
          got |-> 0, copied |-> TRUE]

\* Mutant of ReadNTransit: the tail is left out of the linear copy.
ReadNTransitHeadOnly(head, tail) == head

\* conn.ReadN: what the transit buffer holds after head and tail were
\* written to it.
ReadNTransit(head, tail) == head \o tail

\* conn.ReadN(n): (length, Read()) when n <= 0 or n >= length, else the
\* first n bytes, from the ring when they do not wrap, else as a linear
\* copy in the transit buffer, taken from the byte-buffer pool when there is
\* none yet.
ConnReadN(rb, tb, n) ==
    LET inBufferLen == RBLength(rb) IN
    IF inBufferLen <= n \/ n <= 0
    THEN [have |-> inBufferLen] @@ ConnRead(rb, tb)
    ELSE LET p == RBPeek(rb, n) IN
         IF p.tail = <<>>
         THEN [have |-> n, bytes |-> p.head, tb |-> tb, got |-> 0, copied |-> FALSE]
         ELSE [have |-> n, bytes |-> ReadNTransit(p.head, p.tail),
               tb |-> TransitOf(ReadNTransit(p.head, p.tail)),
               got |-> IF tb.present THEN 0 ELSE 1, copied |-> TRUE]

\* Mutant of DiscardedTransit: the transit buffer is left as it is.
DiscardedTransitKept(tb) == tb

\* conn.ShiftN / conn.ResetBuffer: a transit buffer that is present is
\* reset.
DiscardedTransit(tb) == IF tb.present THEN TransitOf(<<>>) ELSE tb

\* Mutant of ShiftNDiscard: everything buffered is dropped.
ShiftNDiscardsAll(rb, n) == RBReset(rb)

\* conn.ShiftN: c.inboundBuffer.Discard(n).
ShiftNDiscard(rb, n) == RBDiscard(rb, n)

\* conn.ShiftN(n): n bytes are discarded from the inbound ring and n is
\* returned.
ConnShiftN(rb, tb, n) ==
    [rb |-> ShiftNDiscard(rb, n), tb |-> DiscardedTransit(tb), ret |-> n]

\* conn.ResetBuffer(): the inbound ring is cleared.
ConnResetBuffer(rb, tb) == [rb |-> RBReset(rb), tb |-> DiscardedTransit(tb)]

\* conn.BufferLength().
ConnBufferLength(rb) == RBLength(rb)

\* The unix.Write calls among the events of a call.
WritesOf(ev) == Cardinality({j \in DOMAIN ev : ev[j] = "Write"})

\* The handler hooks among the events of a call.
HooksOf(ev, thread) ==
    {<<ev[i], thread>> : i \in {j \in DOMAIN ev : ev[j] \in {"PreWrite", "AfterWrite"}}}

\* The outcomes of conn.write / conn.open that put the packet into the
\* connection's byte stream (the kernel or the outbound buffer).
Streamed == {"appended", "eagain", "partial", "full"}

\* ----------------------------------------------------------------- state

VARIABLES
    opened,          \* c.opened
    outboundBuffer,  \* c.outboundBuffer
    interest,        \* the poller's interest mask for c.fd: none, read, readwrite
    fdState,         \* new (accepted, not yet opened), open, closed
    nOnOpened,       \* OnOpened callbacks delivered for the connection
    nOnClosed,       \* OnClosed callbacks delivered for the connection
    nRelease,        \* calls of c.releaseTCP()
    closeErr,        \* the error OnClosed was given
    sent,            \* the bytes the kernel accepted on c.fd, in order
    nWrite,          \* unix.Write calls made on c.fd
    urgentQ,         \* the task channel's urgent class
    normalQ,         \* the task channel's normal class
    calls,           \* per producer thread, the API calls made and their results
    executed,        \* the tasks the loop has run, with what each did
    wlog,            \* the packets conn.open / conn.write put into the stream
    nReact,          \* React callbacks that returned bytes
    hookBy,          \* (hook, thread) for every PreWrite / AfterWrite invocation
    udpCalls,        \* the results of the SendTo calls on the UDP connection
    inboundBuffer,   \* c.inboundBuffer
    transitBuffer,   \* c.transitBuffer
    pools,           \* what the connection took from and returned to the pools
    nInbound,        \* bytes the peer has sent, numbered in order
    inLog,           \* the Read / ReadN / ShiftN / ResetBuffer calls and their results
    call             \* one conn.write / conn.open / conn.sendTo: inputs and result

connVars == <<opened, outboundBuffer, interest, fdState, nOnOpened, nOnClosed,
              nRelease, closeErr, inboundBuffer, pools>>
queueVars == <<urgentQ, normalQ>>
inVars == <<transitBuffer, nInbound, inLog>>
vars == <<opened, outboundBuffer, interest, fdState, nOnOpened, nOnClosed,
          nRelease, closeErr, sent, nWrite, urgentQ, normalQ, calls, executed, wlog,
          nReact, hookBy, udpCalls, inboundBuffer, transitBuffer, pools, nInbound,
          inLog, call>>

NoId == <<LoopThread, 0>>
NoK == [n |-> 0, err |-> "nil"]

\* No conn.write / conn.open / conn.sendTo singled out yet.
NoCall == [op |-> "none"]

\* newTCPConn: the inbound ring and the poll attachment come from their
\* pools; nothing was returned and no byte buffer taken yet.
NewPools == [ringGet |-> 1, ringPut |-> 0, attachGet |-> 1, attachPut |-> 0,
             bytesGet |-> 0, bytesPut |-> 0]

\* The bytes OnOpened returns when it returns any.
OpenOut == Payload(LoopThread, 0)

\* newTCPConn: a fresh inbound ring and outbound buffer, no transit buffer,
\* not opened, the fd not yet registered with the poller.
Init ==
    /\ opened = FALSE
    /\ outboundBuffer = MBNew
    /\ interest = "none"
    /\ fdState = "new"
    /\ nOnOpened = 0
    /\ nOnClosed = 0
    /\ nRelease = 0
    /\ closeErr = "nil"
    /\ sent = <<>>
    /\ nWrite = 0
    /\ urgentQ = <<>>
    /\ normalQ = <<>>
    /\ calls = [t \in Producers |-> <<>>]
    /\ executed = {}
    /\ wlog = <<>>
    /\ nReact = 0
    /\ hookBy = {}
    /\ udpCalls = <<>>
    /\ inboundBuffer = RBNew
    /\ transitBuffer = NoTransit
    /\ pools = NewPools
    /\ nInbound = 0
    /\ inLog = <<>>
    /\ call = NoCall

\* ------------------------------------------------------------------ close

\* Mutant of ReleasedOpened: the flag is left set.
ReleasedOpenedKept == TRUE

\* conn.releaseTCP: the value c.opened is given.
ReleasedOpened == FALSE

\* conn.releaseTCP: opened is cleared, the inbound ring put back into its
\* pool and replaced by the empty ring, the outbound buffer released, the
\* poll attachment put back into its pool.
ReleaseTCP ==
    /\ opened' = ReleasedOpened
    /\ inboundBuffer' = EmptyRingBuffer
    /\ outboundBuffer' = MBRelease(outboundBuffer)
    /\ pools' = [pools EXCEPT !.ringPut = @ + 1, !.attachPut = @ + 1]
    /\ nRelease' = nRelease + 1

\* eventloop.loopCloseConn past its guard: OnClosed(err) fires, the fd is
\* deregistered and closed, the connection released and removed from the
\* registry.
CloseBody(err) ==
    /\ nOnClosed' = nOnClosed + 1
    /\ closeErr' = err
    /\ interest' = "none"
    /\ fdState' = "closed"
    /\ ReleaseTCP

\* eventloop.loopCloseConn(c, err): a connection that is not opened (never
\* opened, or closed already) is left alone.
LoopCloseConn(err) ==
    IF opened
    THEN CloseBody(err)
    ELSE UNCHANGED <<opened, outboundBuffer, interest, fdState, nOnClosed,
                     nRelease, closeErr, inboundBuffer, pools>>

\* The effect on the connection, the kernel and the stream log of a
\* conn.write / conn.asyncWrite on the loop.
ApplyWrite(r, id) ==
    /\ sent' = sent \o r.acc
    /\ nWrite' = nWrite + WritesOf(r.ev)
    /\ wlog' = IF r.outcome \in Streamed
               THEN Append(wlog, [id |-> id, packet |-> r.packet])
               ELSE wlog
    /\ hookBy' = hookBy \cup HooksOf(r.ev, LoopThread)
    /\ IF r.close
       THEN LoopCloseConn(r.err)
       ELSE /\ outboundBuffer' = r.ob
            /\ interest' = r.mask
            /\ UNCHANGED <<opened, fdState, nOnClosed, nRelease, closeErr, inboundBuffer, pools>>

\* ------------------------------------------------------- loop: open, tasks

\* The loop registers the accepted connection for read readiness and opens
\* it: OnOpened fires, the bytes it returned (if any) are written by
\* conn.open with the result r, and write interest is armed when some were
\* left in the outbound buffer. A failed open closes the connection.
OpenWith(r) ==
    /\ nOnOpened' = nOnOpened + 1
    /\ sent' = sent \o r.acc
    /\ nWrite' = nWrite + WritesOf(r.ev)
    /\ wlog' = IF r.outcome \in Streamed
               THEN Append(wlog, [id |-> NoId, packet |-> r.packet])
               ELSE wlog
    /\ hookBy' = hookBy \cup HooksOf(r.ev, LoopThread)
    /\ IF r.err # "nil"
       THEN CloseBody(r.err)
       ELSE /\ opened' = TRUE
            /\ fdState' = "open"
            /\ outboundBuffer' = r.ob
            /\ interest' = IF MBIsEmpty(r.ob) THEN r.mask
                           ELSE ModReadWrite(r.mask)
            /\ UNCHANGED <<nOnClosed, nRelease, closeErr, inboundBuffer, pools>>

\* loopOpen for a connection just accepted, OnOpened returning bytes or
\* none.
LoopOpen ==
    /\ fdState = "new"
    /\ \E hasOut \in BOOLEAN :
       \E k \in (IF hasOut THEN LoopOutcomes(Len(OpenOut)) ELSE {NoK}) :
          OpenWith(IF hasOut THEN ConnOpen(outboundBuffer, "read", OpenOut, k, TRUE)
                   ELSE Untouched(outboundBuffer, "read"))
    /\ UNCHANGED <<queueVars, calls, executed, nReact, udpCalls, inVars, call>>

\* The inputs conn.write(buf) depends on: the codec's verdict, and the
\* kernel's answer when it comes to the direct write (Encode succeeded and
\* nothing is pending).
WriteInputs(ob, buf) ==
    {<<FALSE, NoK>>}
        \cup {<<TRUE, k>> : k \in (IF ~MBIsEmpty(ob) THEN {NoK}
                                   ELSE LoopOutcomes(Len(Encode(buf))))}

\* The loop drains the urgent class before the normal class.
HasTask == urgentQ # <<>> \/ normalQ # <<>>
NextTask == IF urgentQ # <<>> THEN Head(urgentQ) ELSE Head(normalQ)
PopTask ==
    /\ urgentQ' = IF urgentQ # <<>> THEN Tail(urgentQ) ELSE urgentQ
    /\ normalQ' = IF urgentQ # <<>> THEN normalQ ELSE Tail(normalQ)

\* What is kept of a task the loop ran: whether its write put a packet
\* into the stream, failed to encode, closed the connection, or did nothing.
Ran(task, outcome) ==
    [id |-> task.id, kind |-> task.kind,
     outcome |-> IF outcome \in Streamed THEN "streamed" ELSE outcome]

\* The loop runs a task AsyncWrite submitted: c.asyncWrite(buf).
LoopAsyncWrite ==
    /\ HasTask
    /\ NextTask.kind = "asyncWrite"
    /\ LET id == NextTask.id
           buf == Payload(id[1], id[2])
       IN  \E in \in (IF opened THEN WriteInputs(outboundBuffer, buf)
                        ELSE {<<TRUE, NoK>>}) :
              LET r == ConnAsyncWrite(opened, outboundBuffer, interest,
                                      buf, in[1], in[2], TRUE)
              IN  /\ ApplyWrite(r, id)
                  /\ executed' = executed \cup {Ran(NextTask, r.outcome)}
    /\ PopTask
    /\ UNCHANGED <<nOnOpened, calls, nReact, udpCalls, inVars, call>>

\* The loop runs a task Wake submitted: loopWake calls React with empty
\* input on a connection that is still open, and writes what React
\* returned through conn.write.
LoopWake ==
    /\ HasTask
    /\ NextTask.kind = "wake"
    /\ \E hasOut \in BOOLEAN :
       LET id == <<LoopThread, nReact + 1>>
           buf == Payload(id[1], id[2])
           doWrite == opened /\ hasOut
       IN  \E in \in (IF doWrite THEN WriteInputs(outboundBuffer, buf)
                        ELSE {<<TRUE, NoK>>}) :
              LET r == IF doWrite
                       THEN ConnWrite(outboundBuffer, interest, buf, in[1], in[2], TRUE)
                       ELSE Untouched(outboundBuffer, interest)
              IN  /\ ApplyWrite(r, id)
                  /\ nReact' = IF doWrite THEN nReact + 1 ELSE nReact
                  /\ executed' = executed \cup {Ran(NextTask, r.outcome)}
    /\ PopTask
    /\ UNCHANGED <<nOnOpened, calls, udpCalls, inVars, call>>

\* The loop runs a task Close submitted: loopCloseConn(c, nil).
LoopClose ==
    /\ HasTask
    /\ NextTask.kind = "close"
    /\ LoopCloseConn("nil")
    /\ executed' = executed \cup {Ran(NextTask, IF opened THEN "released" ELSE "noop")}
    /\ PopTask
    /\ UNCHANGED <<nOnOpened, sent, nWrite, calls, wlog, nReact, hookBy, udpCalls, inVars, call>>

\* handleWrite on write readiness: the outbound buffer is written with one
\* writev; the bytes taken are discarded, a full drain puts the mask back
\* to read-only, EAGAIN changes nothing, another error closes the
\* connection.
HandleWrite ==
    /\ opened
    /\ interest = "readwrite"
    /\ \E k \in LoopOutcomes(Len(MBBytes(outboundBuffer))) :
          /\ IF k.err = "EAGAIN"
             THEN UNCHANGED <<connVars, sent>>
             ELSE IF k.err # "nil"
             THEN /\ LoopCloseConn(k.err)
                  /\ UNCHANGED <<nOnOpened, sent>>
             ELSE LET ob == MBDiscard(outboundBuffer, k.n)
                  IN  /\ sent' = sent \o SliceTo(MBBytes(outboundBuffer), k.n)
                      /\ outboundBuffer' = ob
                      /\ interest' = IF MBIsEmpty(ob) THEN ModRead(interest)
                                     ELSE interest
                      /\ UNCHANGED <<opened, fdState, nOnOpened, nOnClosed,
                                     nRelease, closeErr, inboundBuffer, pools>>
    /\ UNCHANGED <<nWrite, queueVars, calls, executed, wlog, nReact, hookBy, udpCalls, inVars, call>>

\* ------------------------------------------------ the concurrency-safe API

\* The call number of thread t's next call.
NextCall(t) == Len(calls[t]) + 1

RECURSIVE CallsOf(_)
\* The number of calls the threads of T have made.
CallsOf(T) ==
    IF T = {} THEN 0
    ELSE LET t == CHOOSE x \in T : TRUE IN Len(calls[t]) + CallsOf(T \ {t})

\* A thread may call while the budget lasts. The threads being
\* interchangeable, they are numbered in the order of their first calls.
CanCall(t) ==
    /\ CallsOf(Producers) < MaxCalls
    /\ \A u \in Producers : u < t => calls[u] # <<>>

\* The record of a call: what was called, what it returned, and whether the
\* connection was opened when it was made.
Called(t, op, ret) ==
    calls' = [calls EXCEPT ![t] = Append(@, [op |-> op, ret |-> ret, open |-> opened])]

\* Mutant of AsyncWriteSubmit: the task goes to the head of the normal class.
AsyncWriteSubmitFront(uq, nq, task) ==
    IF Len(uq) + Len(nq) >= TaskCap
    THEN [uq |-> uq, nq |-> nq, err |-> "ErrQueueFull"]
    ELSE [uq |-> uq, nq |-> <<task>> \o nq, err |-> "nil"]

\* conn.AsyncWrite hands c.asyncWrite to the poller with Trigger.
AsyncWriteSubmit(uq, nq, task) == Trigger(uq, nq, task)

\* conn.Wake hands loopWake to the poller with UrgentTrigger.
WakeSubmit(uq, nq, task) == UrgentTrigger(uq, nq, task)

\* Mutant of CloseSubmit: the close goes to the urgent class.
CloseSubmitUrgent(uq, nq, task) == UrgentTrigger(uq, nq, task)

\* conn.Close hands loopCloseConn to the poller with Trigger.
CloseSubmit(uq, nq, task) == Trigger(uq, nq, task)

\* Mutant of AsyncWrite: a refused task is put into the channel all the
\* same, after the error was noted.
AsyncWriteRetry(t) ==
    /\ fdState # "new"
    /\ CanCall(t)
    /\ LET id == <<t, NextCall(t)>>
           task == [kind |-> "asyncWrite", id |-> id]
           r == AsyncWriteSubmit(urgentQ, normalQ, task)
       IN  /\ urgentQ' = r.uq
           /\ normalQ' = IF r.err = "nil" THEN r.nq ELSE Append(r.nq, task)
           /\ Called(t, "AsyncWrite", r.err)
    /\ UNCHANGED <<connVars, sent, nWrite, executed, wlog, nReact, hookBy, udpCalls, inVars, call>>

\* conn.AsyncWrite(buf) on thread t: the task is submitted and the
\* submission's error returned.
AsyncWrite(t) ==
    /\ fdState # "new"
    /\ CanCall(t)
    /\ LET id == <<t, NextCall(t)>>
           r == AsyncWriteSubmit(urgentQ, normalQ, [kind |-> "asyncWrite", id |-> id])
       IN  /\ urgentQ' = r.uq
           /\ normalQ' = r.nq
           /\ Called(t, "AsyncWrite", r.err)
    /\ UNCHANGED <<connVars, sent, nWrite, executed, wlog, nReact, hookBy, udpCalls, inVars, call>>

\* conn.Wake() on thread t.
Wake(t) ==
    /\ fdState # "new"
    /\ CanCall(t)
    /\ LET id == <<t, NextCall(t)>>
           r == WakeSubmit(urgentQ, normalQ, [kind |-> "wake", id |-> id])
       IN  /\ urgentQ' = r.uq
           /\ normalQ' = r.nq
           /\ Called(t, "Wake", r.err)
    /\ UNCHANGED <<connVars, sent, nWrite, executed, wlog, nReact, hookBy, udpCalls, inVars, call>>

\* Mutant of Close: loopCloseConn is called on the calling thread.
CloseInline(t) ==
    /\ fdState # "new"
    /\ CanCall(t)
    /\ LoopCloseConn("nil")
    /\ Called(t, "Close", "nil")
    /\ UNCHANGED <<nOnOpened, queueVars, sent, nWrite, executed, wlog, nReact,
                   hookBy, udpCalls, inVars, call>>

\* conn.Close() on thread t.
Close(t) ==
    /\ fdState # "new"
    /\ CanCall(t)
    /\ LET id == <<t, NextCall(t)>>
           r == CloseSubmit(urgentQ, normalQ, [kind |-> "close", id |-> id])
       IN  /\ urgentQ' = r.uq
           /\ normalQ' = r.nq
           /\ Called(t, "Close", r.err)
    /\ UNCHANGED <<connVars, sent, nWrite, executed, wlog, nReact, hookBy, udpCalls, inVars, call>>

\* conn.sendTo(buf): PreWrite, unix.Sendto, AfterWrite, on the thread that
\* called it.
ConnSendTo(ok) ==
    [ev |-> <<"PreWrite", "Sendto", "AfterWrite">>,
     err |-> IF ok THEN "nil" ELSE "EPIPE"]

\* conn.SendTo(buf) on thread t, for the UDP connection: c.sendTo(buf) is
\* called right there.
SendTo(t) ==
    /\ Len(udpCalls) < MaxSendTo
    /\ \E ok \in BOOLEAN :
       LET r == ConnSendTo(ok)
       IN  /\ hookBy' = hookBy \cup HooksOf(r.ev, t)
           /\ udpCalls' = Append(udpCalls, [thread |-> t, ret |-> r.err])
    /\ UNCHANGED <<connVars, sent, nWrite, queueVars, calls, executed, wlog, nReact,
                   inVars, call>>

\* ---------------------------------------------------------- specification

Next ==
    \/ LoopOpen
    \/ LoopAsyncWrite
    \/ LoopWake
    \/ LoopClose
    \/ HandleWrite
    \/ \E t \in Producers : AsyncWrite(t)
    \/ \E t \in Producers : Wake(t)
    \/ \E t \in Producers : Close(t)

Spec == Init /\ [][Next]_vars

\* The UDP connection on its own: SendTo from the loop (inside React) and
\* from foreign threads.
NextUDP == \E t \in UdpProducers \cup {LoopThread} : SendTo(t)

SpecUDP == Init /\ [][NextUDP]_vars

\* ------------------------------------------ one call on a drawn connection

\* The packets of two earlier writes whose remainders may be pending.
Prior1 == Encode(Payload(LoopThread, 1))
Prior2 == Encode(Payload(LoopThread, 2))

\* The outbound buffers a call can find: empty, or holding what the kernel
\* left of one packet, with or without a whole packet behind it.
PendingBuffers ==
    {MBNew}
        \cup {MBWrite(MBNew, SliceFrom(Prior1, n)) : n \in 0..(Len(Prior1) - 1)}
        \cup {MBWrite(MBWrite(MBNew, SliceFrom(Prior1, n)), Prior2) :
                 n \in 0..(Len(Prior1) - 1)}

\* A connection just accepted, or one that is open with a buffer of
\* PendingBuffers and the interest mask that goes with it.
InitCalls ==
    /\ fdState \in {"new", "open"}
    /\ opened = (fdState = "open")
    /\ outboundBuffer \in (IF fdState = "open" THEN PendingBuffers ELSE {MBNew})
    /\ interest = (IF fdState = "new" THEN "none"
                   ELSE IF MBIsEmpty(outboundBuffer) THEN "read" ELSE "readwrite")
    /\ nOnOpened = (IF fdState = "open" THEN 1 ELSE 0)
    /\ nOnClosed = 0
    /\ nRelease = 0
    /\ closeErr = "nil"
    /\ sent = <<>>
    /\ nWrite = 0
    /\ urgentQ = <<>>
    /\ normalQ = <<>>
    /\ calls = [t \in Producers |-> <<>>]
    /\ executed = {}
    /\ wlog = <<>>
    /\ nReact = 0
    /\ hookBy = {}
    /\ udpCalls = <<>>
    /\ inboundBuffer = RBNew
    /\ transitBuffer = NoTransit
    /\ pools = NewPools
    /\ nInbound = 0
    /\ inLog = <<>>
    /\ call = NoCall

\* What is kept of the one call: its inputs, the outbound buffer and the
\* interest mask it found, and its result.
CallRecord(op, buf, encOk, k, appOk, r) ==
    [op |-> op, buf |-> buf, encOk |-> encOk, k |-> k, appOk |-> appOk,
     ob |-> outboundBuffer, mask |-> interest, r |-> r]

\* The loop runs conn.write(buf) on the open connection, with any verdict
\* of the codec, any answer of the kernel and any verdict of the outbound
\* buffer.
CallWrite ==
    /\ call = NoCall
    /\ opened
    /\ \E t \in Producers, encOk \in BOOLEAN, appOk \in BOOLEAN :
       \E k \in KernelOutcomes(Len(Encode(Payload(t, 1)))) :
          LET r == ConnWrite(outboundBuffer, interest, Payload(t, 1), encOk, k, appOk)
          IN  /\ ApplyWrite(r, <<t, 1>>)
              /\ call' = CallRecord("write", Payload(t, 1), encOk, k, appOk, r)
    /\ UNCHANGED <<nOnOpened, queueVars, calls, executed, nReact, udpCalls, inVars>>

\* The loop opens the accepted connection, OnOpened having returned bytes:
\* conn.open(out), with any answer of the kernel and any verdict of the
\* outbound buffer.
CallOpen ==
    /\ call = NoCall
    /\ fdState = "new"
    /\ \E appOk \in BOOLEAN :
       \E k \in KernelOutcomes(Len(OpenOut)) :
          LET r == ConnOpen(outboundBuffer, "read", OpenOut, k, appOk)
          IN  /\ OpenWith(r)
              /\ call' = CallRecord("open", OpenOut, TRUE, k, appOk, r)
    /\ UNCHANGED <<queueVars, calls, executed, nReact, udpCalls, inVars>>

\* conn.sendTo(buf) on the UDP connection, called on thread t.
CallSendTo ==
    /\ call = NoCall
    /\ \E t \in UdpProducers \cup {LoopThread}, ok \in BOOLEAN :
          LET r == ConnSendTo(ok)
          IN  /\ hookBy' = hookBy \cup HooksOf(r.ev, t)
              /\ udpCalls' = Append(udpCalls, [thread |-> t, ret |-> r.err])
              /\ call' = CallRecord("sendTo", Payload(t, 1), TRUE, NoK, TRUE, r)
    /\ UNCHANGED <<connVars, sent, nWrite, queueVars, calls, executed, wlog, nReact,
                   inVars>>

NextCalls == CallWrite \/ CallOpen \/ CallSendTo

SpecCalls == InitCalls /\ [][NextCalls]_vars

\* ------------------------------------- the inbound side of one connection

\* The bytes the peer sends are numbered in order: first, first + 1, ...
InboundBytes(first, len) == [i \in 1..len |-> first + i - 1]

\* The inbound rings an open connection can have before the codec's next
\* call: any read index, any fill, the bytes read so far being those before
\* the buffered ones.
DrawnRings ==
    {[size |-> InCap, r |-> r0, data |-> InboundBytes(r0 + 1, len)] :
        r0 \in 0..(InCap - 1), len \in 0..InCap}

\* A connection the loop has opened, OnOpened having returned nothing, with
\* an inbound ring of DrawnRings and no transit buffer yet.
InitInbound ==
    /\ opened = TRUE
    /\ outboundBuffer = MBNew
    /\ interest = "read"
    /\ fdState = "open"
    /\ nOnOpened = 1
    /\ nOnClosed = 0
    /\ nRelease = 0
    /\ closeErr = "nil"
    /\ sent = <<>>
    /\ nWrite = 0
    /\ urgentQ = <<>>
    /\ normalQ = <<>>
    /\ calls = [t \in Producers |-> <<>>]
    /\ executed = {}
    /\ wlog = <<>>
    /\ nReact = 0
    /\ hookBy = {}
    /\ udpCalls = <<>>
    /\ inboundBuffer \in DrawnRings
    /\ transitBuffer = NoTransit
    /\ pools = NewPools
    /\ nInbound = inboundBuffer.r + Len(inboundBuffer.data)
    /\ inLog = <<>>
    /\ call = NoCall

\* What the calls on the inbound side leave alone.
outVars == <<opened, outboundBuffer, interest, fdState, nOnOpened, nOnClosed,
             nRelease, closeErr, sent, nWrite, queueVars, calls, executed, wlog,
             nReact, hookBy, udpCalls, call>>

\* handleRead: the bytes read from the fd are appended to the inbound ring.
InboundAppend ==
    /\ opened
    /\ \E len \in 1..2 :
          /\ nInbound + len <= MaxInbound
          /\ inboundBuffer' = RBWrite(inboundBuffer, InboundBytes(nInbound + 1, len))
          /\ nInbound' = nInbound + len
    /\ UNCHANGED <<outVars, transitBuffer, pools, inLog>>

\* The codec (or React) may call while the connection is open.
CanInCall == opened /\ Len(inLog) < MaxInCalls

\* The log after a call: the earlier calls keep their name and whether they
\* copied into the transit buffer, the last call all of its record.
Logged(rec) ==
    Append([i \in DOMAIN inLog |-> [op |-> inLog[i].op, copied |-> inLog[i].copied]],
           rec)

\* c.Read() on the loop.
Read ==
    /\ CanInCall
    /\ LET r == ConnRead(inboundBuffer, transitBuffer)
       IN  /\ transitBuffer' = r.tb
           /\ pools' = [pools EXCEPT !.bytesGet = @ + r.got]
           /\ inLog' = Logged([op |-> "Read", arg |-> 0, have |-> Len(r.bytes),
                               bytes |-> r.bytes, copied |-> r.copied])
    /\ UNCHANGED <<outVars, inboundBuffer, nInbound>>

\* c.ReadN(n) on the loop.
ReadN ==
    /\ CanInCall
    /\ \E n \in (-1)..(RBLength(inboundBuffer) + 1) :
       LET r == ConnReadN(inboundBuffer, transitBuffer, n)
       IN  /\ transitBuffer' = r.tb
           /\ pools' = [pools EXCEPT !.bytesGet = @ + r.got]
           /\ inLog' = Logged([op |-> "ReadN", arg |-> n, have |-> r.have,
                               bytes |-> r.bytes, copied |-> r.copied])
    /\ UNCHANGED <<outVars, inboundBuffer, nInbound>>

\* c.ShiftN(n) on the loop.
ShiftN ==
    /\ CanInCall
    /\ \E n \in 0..(RBLength(inboundBuffer) + 1) :
       LET r == ConnShiftN(inboundBuffer, transitBuffer, n)
       IN  /\ inboundBuffer' = r.rb
           /\ transitBuffer' = r.tb
           /\ inLog' = Logged([op |-> "ShiftN", arg |-> n, have |-> r.ret,
                               bytes |-> <<>>, copied |-> FALSE])
    /\ UNCHANGED <<outVars, pools, nInbound>>

\* c.ResetBuffer() on the loop.
ResetBuffer ==
    /\ CanInCall
    /\ LET r == ConnResetBuffer(inboundBuffer, transitBuffer)
       IN  /\ inboundBuffer' = r.rb
           /\ transitBuffer' = r.tb
           /\ inLog' = Logged([op |-> "ResetBuffer", arg |-> 0, have |-> 0,
                               bytes |-> <<>>, copied |-> FALSE])
    /\ UNCHANGED <<outVars, pools, nInbound>>

\* The peer resets the connection: the loop closes it with that error.
PeerReset ==
    /\ opened
    /\ LoopCloseConn("ECONNRESET")
    /\ UNCHANGED <<nOnOpened, sent, nWrite, queueVars, calls, executed, wlog, nReact,
                   hookBy, udpCalls, inVars, call>>

NextInbound ==
    \/ InboundAppend
    \/ Read
    \/ ReadN
    \/ ShiftN
    \/ ResetBuffer
    \/ PeerReset

SpecInbound == InitInbound /\ [][NextInbound]_vars

\* ------------------------------------------------------ derived quantities

\* The connection's byte stream: what the kernel accepted, then what is
\* still in the outbound buffer.
Stream == sent \o MBBytes(outboundBuffer)

\* The packet the stream must hold for an entry of the stream log: the
\* bytes OnOpened returned as they are, Encode's output for a write.
ExpectedPacket(id) ==
    IF id = NoId THEN OpenOut ELSE Encode(Payload(id[1], id[2]))

WlogIds == {wlog[i].id : i \in DOMAIN wlog}

\* A step in which the loop ran a task, and the task it ran.
RanTask == executed' # executed
TaskRun == CHOOSE e \in executed' \ executed : TRUE

\* A step in which the loop ran conn.write on the opened connection and
\* Encode succeeded (an AsyncWrite task, or React's bytes after a Wake).
WriteRan ==
    /\ RanTask
    /\ TaskRun.kind \in {"asyncWrite", "wake"}
    /\ TaskRun.outcome \notin {"noop", "encerr"}

\* The packet conn.write encoded in such a step.
WritePacket ==
    IF TaskRun.kind = "asyncWrite"
    THEN Encode(Payload(TaskRun.id[1], TaskRun.id[2]))
    ELSE Encode(Payload(LoopThread, nReact'))

\* -------------------------------------------------------------- claims

\* C1: whenever conn.write runs while the outbound buffer is non-empty, no
\* write syscall is issued on the fd (the kernel accepts nothing, the count
\* of unix.Write calls stays) and the whole encoded packet is appended at
\* the tail of the outbound buffer, whose length grows by len(packet).
C1_AppendBehindPending ==
    [][(WriteRan /\ ~MBIsEmpty(outboundBuffer)) =>
          /\ nWrite' = nWrite
          /\ sent' = sent
          /\ MBBytes(outboundBuffer') = MBBytes(outboundBuffer) \o WritePacket
          /\ Len(MBBytes(outboundBuffer')) =
                Len(MBBytes(outboundBuffer)) + Len(WritePacket)]_vars

\* C1's case: a write was appended behind pending data (two packets are in
\* the stream, the later wholly in the outbound buffer, and fewer
\* unix.Write calls than packets were made).
C1_Witness ==
    /\ opened
    /\ Len(wlog) >= 2
    /\ nWrite < Len(wlog)
    /\ Len(MBBytes(outboundBuffer)) > Len(wlog[Len(wlog)].packet)

\* C2: with an empty outbound buffer conn.write attempts one direct write
\* of the packet; when the kernel accepts n < len(packet) bytes (EAGAIN:
\* none) exactly packet[n:] is buffered and write interest is armed; when
\* it accepts all of them nothing is buffered and the mask is unchanged.
C2_DirectWrite ==
    [][(WriteRan /\ MBIsEmpty(outboundBuffer) /\ TaskRun.outcome = "streamed") =>
          LET n == Len(sent') - Len(sent) IN
          /\ nWrite' = nWrite + 1
          /\ n \in 0..Len(WritePacket)
          /\ sent' = sent \o SliceTo(WritePacket, n)
          /\ n < Len(WritePacket) =>
                /\ MBBytes(outboundBuffer') = SliceFrom(WritePacket, n)
                /\ interest' = "readwrite"
          /\ n = Len(WritePacket) =>
                /\ MBIsEmpty(outboundBuffer')
                /\ interest' = interest]_vars

\* C2's case: a direct write was taken in part: the first packet written
\* by an AsyncWrite is split between the kernel and the outbound buffer.
C2_Witness ==
    /\ opened
    /\ Len(wlog) = 1
    /\ wlog[1].id[1] \in Producers
    /\ sent # <<>>
    /\ ~MBIsEmpty(outboundBuffer)
    /\ sent \o MBBytes(outboundBuffer) = wlog[1].packet
    /\ interest = "readwrite"

\* C3: at every loop-iteration boundary the poller's interest mask for the
\* fd includes Write if and only if the outbound buffer is non-empty.
C3_WriteInterestIffPending ==
    (interest = "readwrite") <=> ~MBIsEmpty(outboundBuffer)

\* C3's case: data is pending after an open and a write, with write
\* interest armed.
C3_Witness ==
    /\ interest = "readwrite"
    /\ ~MBIsEmpty(outboundBuffer)
    /\ NoId \in WlogIds
    /\ Len(wlog) >= 2

\* C4: while the connection is open, the bytes the kernel accepted followed
\* by the content of the outbound buffer equal the concatenation of the
\* packets in call order; the kernel never holds anything but a prefix of
\* that concatenation.
C4_StreamIsPacketsInOrder ==
    LET packets == Flatten([i \in DOMAIN wlog |-> ExpectedPacket(wlog[i].id)])
    IN  /\ opened => Stream = packets
        /\ IsPrefix(sent, packets)

\* C4's case: several writes with partial outcomes: three packets in the
\* stream, part of it accepted by the kernel, the rest spread over the
\* ring and the list of the outbound buffer.
C4_Witness ==
    /\ opened
    /\ Len(wlog) >= 3
    /\ sent # <<>>
    /\ outboundBuffer.ring # <<>>
    /\ outboundBuffer.list # <<>>

\* The positions of the stream holding payload bytes of producer threads.
ProducerBytes == {p \in DOMAIN Stream :
                     IsPayloadByte(Stream[p]) /\ ByteThread(Stream[p]) \in Producers}

\* C5: in the byte stream each producer thread's payloads appear in that
\* thread's submission order, each once, and each payload is contiguous
\* (between two bytes of one payload there is no byte of another).
C5_PerThreadOrder ==
    \A p, q \in ProducerBytes :
        p < q =>
          /\ ByteThread(Stream[p]) = ByteThread(Stream[q]) =>
                \/ ByteCall(Stream[p]) < ByteCall(Stream[q])
                \/ /\ ByteCall(Stream[p]) = ByteCall(Stream[q])
                   /\ ByteIndex(Stream[p]) < ByteIndex(Stream[q])
          /\ ByteId(Stream[p]) = ByteId(Stream[q]) =>
                \A r \in p..q : r \in ProducerBytes /\ ByteId(Stream[r]) = ByteId(Stream[p])

\* C5's case: two threads' AsyncWrites are in the stream, two of them by
\* the same thread.
C5_Witness ==
    /\ \A t \in Producers : \E p \in ProducerBytes : ByteThread(Stream[p]) = t
    /\ \E p, q \in ProducerBytes :
          /\ ByteThread(Stream[p]) = ByteThread(Stream[q])
          /\ ByteCall(Stream[p]) # ByteCall(Stream[q])

\* The pairs (thread, j, k): the thread called AsyncWrite as its call j and
\* Close as a later call k, on the opened connection, and both submissions
\* succeeded.
WriteThenClose ==
    {x \in Producers \X (1..MaxCalls) \X (1..MaxCalls) :
        /\ x[2] < x[3]
        /\ x[3] <= Len(calls[x[1]])
        /\ calls[x[1]][x[2]] = [op |-> "AsyncWrite", ret |-> "nil", open |-> TRUE]
        /\ calls[x[1]][x[3]] = [op |-> "Close", ret |-> "nil", open |-> TRUE]}

\* The outcomes with which the loop has run the task of call k of thread t.
OutcomesOf(t, k) == {e.outcome : e \in {x \in executed : x.id = <<t, k>>}}

\* C6, as claimed: once the loop has run the Close of a producer that
\* called AsyncWrite(b) and then Close(), b is in the stream (handed to the
\* kernel or appended to the outbound buffer); the cases where Encode or
\* the direct write of b itself failed are left aside.
C6_Original ==
    \A x \in WriteThenClose :
        (/\ OutcomesOf(x[1], x[3]) # {}
         /\ OutcomesOf(x[1], x[2]) \cap {"encerr", "closed"} = {})
            => <<x[1], x[2]>> \in WlogIds

\* C6, amended: the loop runs the write of b before the close; and when it
\* is this close that releases the connection, the write ran on the open
\* connection, so b is in the stream unless Encode failed. (A write that
\* finds the connection closed already, by another Close or by a write
\* error, is dropped.)
C6_WriteRunsBeforeClose ==
    \A x \in WriteThenClose :
        /\ OutcomesOf(x[1], x[3]) # {} => OutcomesOf(x[1], x[2]) # {}
        /\ "released" \in OutcomesOf(x[1], x[3]) =>
              /\ OutcomesOf(x[1], x[2]) \subseteq {"streamed", "encerr"}
              /\ "streamed" \in OutcomesOf(x[1], x[2]) => <<x[1], x[2]>> \in WlogIds

\* C6's case: a producer's AsyncWrite then Close, another producer having
\* called too, the close has released the connection and b is in the stream.
C6_Witness ==
    \E x \in WriteThenClose :
        /\ "released" \in OutcomesOf(x[1], x[3])
        /\ <<x[1], x[2]>> \in WlogIds
        /\ \A t \in Producers : calls[t] # <<>>

\* C7: whatever Close() calls and write errors occur, the connection is
\* released at most once and OnClosed fires at most once; OnOpened fires at
\* most once and never fewer times than OnClosed; a closed connection has
\* had one OnOpened and one OnClosed; and opened goes from true to false
\* only in the one release and is never set again.
C7_CloseIdempotent ==
    /\ [](/\ nRelease <= 1
          /\ nOnClosed <= 1
          /\ nOnOpened <= 1
          /\ nOnClosed <= nOnOpened
          /\ nOnClosed = nRelease
          /\ fdState = "closed" => (nOnOpened = 1 /\ nOnClosed = 1 /\ ~opened)
          /\ opened => nRelease = 0)
    /\ [][(opened /\ ~opened') => (nRelease = 0 /\ nRelease' = 1 /\ nOnClosed' = 1)]_vars
    /\ [][(~opened /\ opened') => (nOnOpened = 0 /\ nRelease = 0)]_vars

\* C7's case: two Close tasks have run on a connection released once.
C7_Witness ==
    /\ Cardinality({e \in executed : e.kind = "close"}) >= 2
    /\ nRelease = 1
    /\ fdState = "closed"

\* The calls that were refused with the task channel full.
Rejected ==
    {x \in Producers \X (1..MaxCalls) :
        x[2] <= Len(calls[x[1]]) /\ calls[x[1]][x[2]].ret = "ErrQueueFull"}

QueuedIds == {urgentQ[i].id : i \in DOMAIN urgentQ} \cup {normalQ[i].id : i \in DOMAIN normalQ}

\* A step in which thread t made a call, and the record of that call.
CallBy(t) == Len(calls'[t]) = Len(calls[t]) + 1
NewCall(t) == calls'[t][Len(calls'[t])]

\* C8: a call made with the task channel full returns the submission error
\* and changes neither the channel nor the connection; no task of it is
\* ever queued or run, and no byte of a refused AsyncWrite is in the stream.
C8_FullChannelRejects ==
    /\ [](\A x \in Rejected :
             /\ x \notin QueuedIds
             /\ OutcomesOf(x[1], x[2]) = {}
             /\ x \notin WlogIds
             /\ \A p \in DOMAIN Stream :
                   IsPayloadByte(Stream[p]) => ByteId(Stream[p]) # x)
    /\ [][\A t \in Producers :
             (CallBy(t) /\ Len(urgentQ) + Len(normalQ) >= TaskCap) =>
                 /\ NewCall(t).ret = "ErrQueueFull"
                 /\ UNCHANGED <<connVars, queueVars, sent, nWrite, wlog, executed>>]_vars

\* C8's case: an AsyncWrite was refused, and the loop has since run every
\* task that was queued.
C8_Witness ==
    /\ \E x \in Rejected : calls[x[1]][x[2]].op = "AsyncWrite"
    /\ ~HasTask
    /\ Cardinality(executed) >= TaskCap

\* C9: a step in which a producer thread calls AsyncWrite, Wake or Close
\* changes at most the task channel, by at most the one task appended: the
\* connection's flag, buffers, fd and interest mask, the kernel's bytes and
\* the hooks are untouched, and nothing was run.
C9_CallsOnlyEnqueue ==
    [][\A t \in Producers :
          CallBy(t) =>
              /\ UNCHANGED <<connVars, sent, nWrite, wlog, executed, hookBy, nReact>>
              /\ \/ UNCHANGED queueVars
                 \/ \E task \in [kind : {"asyncWrite", "wake", "close"},
                                 id : {<<t, Len(calls'[t])>>}] :
                       \/ urgentQ' = Append(urgentQ, task) /\ normalQ' = normalQ
                       \/ normalQ' = Append(normalQ, task) /\ urgentQ' = urgentQ]_vars

\* C9's case: a call was accepted while the connection was open with data
\* pending, and its task waits in the channel.
C9_Witness ==
    /\ opened
    /\ ~MBIsEmpty(outboundBuffer)
    /\ HasTask
    /\ \E t \in Producers : calls[t] # <<>> /\ calls[t][Len(calls[t])].ret = "nil"

\* C10, as claimed: every PreWrite and AfterWrite invocation is made on the
\* owning loop's thread.
C10_HooksOnLoopThread ==
    \A h \in hookBy : h[2] = LoopThread

\* Whether the singled-out call made the call or hook e.
Did(e) == \E i \in DOMAIN call.r.ev : call.r.ev[i] = e

\* The bytes the singled-out call put into the outbound buffer.
CallBuffered == SliceFrom(MBBytes(call.r.ob), Len(MBBytes(call.ob)))

\* C11, as claimed: when the direct write of conn.write or conn.open
\* returns a transient error (EAGAIN or EINTR), the call returns no error,
\* the connection is not closed, and the whole packet (of which nothing was
\* sent) is in the outbound buffer behind what was there.
C11_TransientNeverSurfaced ==
    (call.op \in {"write", "open"} /\ Did("Write") /\ call.k.err \in Transient) =>
        /\ call.r.err = "nil"
        /\ ~call.r.close
        /\ fdState = "open"
        /\ nOnClosed = 0
        /\ call.appOk => CallBuffered = call.r.packet

\* C12: when the direct write of conn.write fails with an error that is
\* not transient, the connection is closed by the loop (OnClosed fired once,
\* the connection released) with the errno as the close error, nothing of
\* the packet was sent or buffered, and write interest was not armed.
C12_WriteErrorCloses ==
    (call.op = "write" /\ Did("Write") /\ call.k.err \notin Transient \cup {"nil"}) =>
        /\ call.r.close
        /\ fdState = "closed"
        /\ ~opened
        /\ nOnClosed = 1
        /\ nRelease = 1
        /\ closeErr = call.k.err
        /\ sent = <<>>
        /\ ~Did("Append")
        /\ call.r.ob = call.ob
        /\ MBIsEmpty(outboundBuffer)
        /\ ~Did("ModReadWrite")
        /\ call.r.mask = call.mask
        /\ interest # "readwrite"

\* C12's case: a conn.write whose direct write got EPIPE has run, and the
\* connection is closed.
C12_Witness ==
    /\ call.op = "write"
    /\ Did("Write")
    /\ call.k.err = "EPIPE"
    /\ closeErr = "EPIPE"
    /\ fdState = "closed"

\* C13, as claimed: when the append to the outbound buffer made by
\* conn.write or conn.open fails for lack of resources, the call returns an
\* error to its caller and the connection stays open.
C13_BufferFailureReturned ==
    (call.op \in {"write", "open"} /\ Did("Append") /\ ~call.appOk) =>
        /\ call.r.err # "nil"
        /\ opened
        /\ fdState = "open"

\* What Read would return of a ring: the two slices of PeekAll joined.
InContent(rb) == RBPeekAll(rb).head \o RBPeekAll(rb).tail

\* The last call on the inbound side, and a step that makes a call.
LastIn == inLog[Len(inLog)]
InCallStep(ops) == Len(inLog') = Len(inLog) + 1 /\ inLog'[Len(inLog')].op \in ops

Min(a, b) == IF a <= b THEN a ELSE b

C15_DiscardInvalidatesTransit ==
    /\ []((opened /\ transitBuffer.present) =>
             IsPrefix(transitBuffer.B, InContent(inboundBuffer)))
    /\ [][InCallStep({"ShiftN", "ResetBuffer"}) =>
             /\ transitBuffer'.present = transitBuffer.present
             /\ transitBuffer'.B = <<>>]_vars
    /\ [][InCallStep({"Read", "ReadN"}) =>
             /\ IsPrefix(inLog'[Len(inLog')].bytes, InContent(inboundBuffer'))
             /\ inLog'[Len(inLog')].copied =>
                    transitBuffer'.B = inLog'[Len(inLog')].bytes]_vars

\* C15's case: a linear copy was made, then ShiftN discarded bytes, then a
\* read made a linear copy again, of the bytes left.
C15_Witness ==
    /\ Len(inLog) = 3
    /\ inLog[1].copied
    /\ inLog[2].op = "ShiftN"
    /\ inLog[3].copied
    /\ inLog[3].bytes # <<>>
    /\ inLog[3].bytes[1] > inboundBuffer.r
    /\ transitBuffer.B = inLog[3].bytes
    /\ pools.bytesGet = 1

\* What ReadN(n) has to return of a ring holding data: (n, the first n
\* bytes) when 0 < n < length, else (length, all the bytes).
ReadNExpected(data, n) ==
    IF 0 < n /\ n < Len(data)
    THEN [have |-> n, bytes |-> SliceTo(data, n)]
    ELSE [have |-> Len(data), bytes |-> data]

\* C16: on every inbound ring (wrapped or not) with or without a transit
\* buffer, Read() returns all the buffered bytes in FIFO order and ReadN(n)
\* returns (n, the first n of them) when 0 < n < length and (length, all of
\* them) otherwise, the same when the call is repeated; and a Read / ReadN
\* step returns just that and leaves the ring and BufferLength() as they
\* were.
C16_ReadsPeekInFifoOrder ==
    /\ [](opened =>
             LET data == inboundBuffer.data
                 r1 == ConnRead(inboundBuffer, transitBuffer)
             IN  /\ r1.bytes = data
                 /\ ConnRead(inboundBuffer, r1.tb).bytes = data
                 /\ \A n \in (-1)..(Len(data) + 1) :
                       LET rn == ConnReadN(inboundBuffer, transitBuffer, n)
                           again == ConnReadN(inboundBuffer, rn.tb, n)
                       IN  /\ [have |-> rn.have, bytes |-> rn.bytes] =
                                  ReadNExpected(data, n)
                           /\ [have |-> again.have, bytes |-> again.bytes] =
                                  ReadNExpected(data, n))
    /\ [][InCallStep({"Read", "ReadN"}) =>
             LET l == inLog'[Len(inLog')]
             IN  /\ inboundBuffer' = inboundBuffer
                 /\ ConnBufferLength(inboundBuffer') = ConnBufferLength(inboundBuffer)
                 /\ l.op = "Read" => l.bytes = inboundBuffer.data
                 /\ l.op = "ReadN" =>
                        [have |-> l.have, bytes |-> l.bytes] =
                            ReadNExpected(inboundBuffer.data, l.arg)]_vars

\* C16's case: after a read that made a linear copy, ReadN(n) with
\* 0 < n < length returned n bytes that wrap in the ring, through the
\* transit buffer.
C16_Witness ==
    /\ Len(inLog) >= 2
    /\ inLog[1].copied
    /\ LastIn.op = "ReadN"
    /\ LastIn.copied
    /\ 0 < LastIn.arg
    /\ LastIn.arg < ConnBufferLength(inboundBuffer)
    /\ LastIn.have = LastIn.arg
    /\ Len(LastIn.bytes) = LastIn.arg

\* C17, as claimed: while the connection is open nothing it took from a
\* pool has been returned; once it is closed the inbound ring, the poll
\* attachment and every byte buffer taken for the transit buffer have been
\* returned, each once.
C17_PooledReturnedOnce ==
    /\ fdState = "open" =>
          pools.ringPut = 0 /\ pools.attachPut = 0 /\ pools.bytesPut = 0
    /\ fdState = "closed" =>
          /\ pools.ringPut = pools.ringGet
          /\ pools.attachPut = pools.attachGet
          /\ pools.bytesPut = pools.bytesGet

\* C18, as claimed: what conn.write or conn.open hands to unix.Write or
\* appends to the outbound buffer is Encode's output for the caller's
\* bytes: the bytes the kernel accepted followed by the bytes buffered are
\* that output; and when Encode fails nothing is written or buffered and
\* the error is returned.
C18_EverythingEncoded ==
    call.op \in {"write", "open"} =>
        /\ (Did("Write") \/ Did("Append")) =>
              /\ call.r.packet = Encode(call.buf)
              /\ (call.appOk /\ call.r.err = "nil") =>
                    call.r.acc \o CallBuffered = Encode(call.buf)
        /\ ~call.encOk =>
              /\ ~Did("Write")
              /\ ~Did("Append")
              /\ call.r.acc = <<>>
              /\ call.r.ob = call.ob
              /\ call.r.err # "nil"

\* C19: conn.asyncWrite on a connection whose opened flag is false does
\* nothing at all and returns nil, whatever the codec, the kernel and the
\* buffer would have answered (no Encode, no hook, no unix.Write, the buffer
\* and the mask as they were); a step in which the loop runs an AsyncWrite
\* task on such a connection changes nothing of the connection, the
\* kernel's bytes, the write count, the stream log or the hooks; and once
\* the connection was released no AsyncWrite task writes to the fd.
C19_UnopenedAsyncWriteIsNoop ==
    /\ [](~opened =>
             \A t \in Producers, encOk \in BOOLEAN, appOk \in BOOLEAN :
                \A k \in KernelOutcomes(Len(Encode(Payload(t, 1)))) :
                   ConnAsyncWrite(opened, outboundBuffer, interest, Payload(t, 1),
                                  encOk, k, appOk)
                       = Untouched(outboundBuffer, interest))
    /\ [][(RanTask /\ TaskRun.kind = "asyncWrite" /\ ~opened) =>
             /\ TaskRun.outcome = "noop"
             /\ UNCHANGED <<connVars, sent, nWrite, wlog, hookBy, nReact>>]_vars
    /\ [][(RanTask /\ TaskRun.kind = "asyncWrite" /\ nRelease >= 1) =>
             /\ sent' = sent
             /\ nWrite' = nWrite
             /\ fdState' = "closed"]_vars

\* C19's case: the loop has run an AsyncWrite task that was still queued
\* when the connection was released, after bytes had been sent on the fd.
C19_Witness ==
    /\ fdState = "closed"
    /\ nRelease = 1
    /\ sent # <<>>
    /\ \E e \in executed : e.kind = "asyncWrite" /\ e.outcome = "noop"
    /\ \E e \in executed : e.kind = "close" /\ e.outcome = "released"

\* How often the singled-out call made the call or hook e.
Times(e) == Cardinality({i \in DOMAIN call.r.ev : call.r.ev[i] = e})

\* C20, as claimed: every conn.write, conn.open and conn.sendTo invokes
\* PreWrite exactly once, before any write syscall or append, and
\* AfterWrite exactly once, as the last thing it does, on every exit path.
C20_HooksPaired ==
    call.op \in {"write", "open", "sendTo"} =>
        LET ev == call.r.ev IN
        /\ Times("PreWrite") = 1
        /\ Times("AfterWrite") = 1
        /\ ev[Len(ev)] = "AfterWrite"
        /\ \A i \in DOMAIN ev :
              ev[i] \in {"Write", "Sendto", "Append", "AfterWrite"} =>
                  \E j \in 1..(i - 1) : ev[j] = "PreWrite"
====
